---- MODULE Spec2Model ----
(***************************************************************************)
(* Tile-painting grid of src/main.rs: a grid of tiles spawned at startup,  *)
(* and three per-frame systems (mouse_click_system, tile_hover_system,     *)
(* tile_type_button_system) that the engine runs once per frame in an      *)
(* order the program does not constrain.                                   *)
(*                                                                         *)
(* Coordinates are integers: every value the systems compute is a multiple *)
(* of TILE_SIZE / 2, which f32 represents exactly.                         *)
(***************************************************************************)
EXTENDS Integers, Sequences, FiniteSets

VARIABLES
    tiles,          \* spawn-ordered tile entities: TilePosition, Transform, TileType, Sprite colour
    selected,       \* resource SelectedTileType
    window,         \* TRUE iff Query<&Window> matches exactly one entity
    camera,         \* TRUE iff Query<(&Camera, &GlobalTransform)> matches exactly one entity
    cursor,         \* window.cursor_position() of this frame: NoCursor or <<px, py>>
    just_pressed,   \* buttons.just_pressed(MouseButton::Left), as mouse_click_system read it this frame
    changed,        \* the Changed<Interaction> button, as tile_type_button_system read it this frame
    ran,            \* the Update systems that already ran in this frame
    panicked,       \* a system panicked (Query::single on a missing entity)
    lastPress,      \* history: type of the last press tile_type_button_system handled
    snap            \* history: the tile as the last click left it, kept while the cursor stays
                    \* on it and no press is handled; again = that click repeated an earlier one

vars == <<tiles, selected, window, camera, cursor, just_pressed, changed, ran,
          panicked, lastPress, snap>>

----------------------------------------------------------------------------
(* Constants of the program.  The grid of the source is 10 x 10; the model *)
(* checks a smaller grid.                                                  *)

TILE_SIZE == 32

GRID_WIDTH == 2

GRID_HEIGHT == 1

TileType == {"Grass", "Dirt", "Water", "Crop"}

\* TileType::color
color(tile_type) ==
    CASE tile_type = "Grass" -> "GREEN"
      [] tile_type = "Dirt"  -> "rgb(0.5,0.25,0.1)"
      [] tile_type = "Water" -> "BLUE"
      [] tile_type = "Crop"  -> "rgb(0.1,0.5,0.1)"

YELLOW == "YELLOW"

Interaction == {"Pressed", "Hovered", "None"}

Systems == {"mouse_click_system", "tile_hover_system", "tile_type_button_system"}

\* window.cursor_position() = None
NoCursor == <<>>

\* the Changed<Interaction> query matches no button
NoChange == [button |-> "-", interaction |-> "-"]

NoPress == "NoPress"

NoSnap == [tile |-> 0, tile_type |-> "-", color |-> "-", again |-> FALSE]

Abs(v) == IF v < 0 THEN -v ELSE v

----------------------------------------------------------------------------
(* Startup: spawn_tiles.                                                   *)

NumTiles == GRID_WIDTH * GRID_HEIGHT

\* the match of spawn_tiles on random::<u8>() % 4
RandomTileType(r) ==
    CASE r % 4 = 0 -> "Grass"
      [] r % 4 = 1 -> "Dirt"
      [] r % 4 = 2 -> "Water"
      [] OTHER     -> "Crop"

RandomTileTypes == {RandomTileType(r) : r \in 0..255}

\* variant of SpawnTile: the translation is not centred on the origin
SpawnTile_NotCentred(k, tile_type) ==
    LET x == (k - 1) % GRID_WIDTH
        y == (k - 1) \div GRID_WIDTH
    IN  [x |-> x, y |-> y, translation |-> <<x * TILE_SIZE, y * TILE_SIZE>>,
         tile_type |-> tile_type, color |-> color(tile_type)]

\* the tile spawned by the k-th iteration (k from 1) of the loops: y outer, x inner
SpawnTile(k, tile_type) ==
    LET x == (k - 1) % GRID_WIDTH
        y == (k - 1) \div GRID_WIDTH
        pos_x == x * TILE_SIZE - (GRID_WIDTH * TILE_SIZE) \div 2
        pos_y == y * TILE_SIZE - (GRID_HEIGHT * TILE_SIZE) \div 2
    IN  [x |-> x, y |-> y, translation |-> <<pos_x, pos_y>>,
         tile_type |-> tile_type, color |-> color(tile_type)]

spawn_tiles(types) == [k \in 1..NumTiles |-> SpawnTile(k, types[k])]

----------------------------------------------------------------------------
(* The window and the camera of the engine.  The window is just large      *)
(* enough to show the grid and a margin around it; the cursor is sampled   *)
(* at the centres and on the edges of the tiles.  Camera2dBundle::default  *)
(* looks at the world origin with scale 1: window pixel (px, py), y down,  *)
(* is world point (px - width/2, height/2 - py), y up.                     *)
(* For a cursor inside the window the conversion always yields a point.    *)

WindowWidth == (GRID_WIDTH + 1) * TILE_SIZE

WindowHeight == (GRID_HEIGHT + 1) * TILE_SIZE

CursorStep == TILE_SIZE \div 2

CursorPositions ==
    {<<i * CursorStep, j * CursorStep>> :
        i \in 0..(2 * (GRID_WIDTH + 1) - 1), j \in 0..(2 * (GRID_HEIGHT + 1) - 1)}

viewport_to_world(cursor_pos) ==
    <<cursor_pos[1] - WindowWidth \div 2, WindowHeight \div 2 - cursor_pos[2]>>

----------------------------------------------------------------------------
(* The hit test shared by mouse_click_system and tile_hover_system.        *)

\* variant of half_size: the whole tile size
half_size_Full == TILE_SIZE

half_size == TILE_SIZE \div 2

in_x(world_pos, pos) == Abs(world_pos[1] - pos[1]) < half_size

in_y(world_pos, pos) == Abs(world_pos[2] - pos[2]) < half_size

\* variant of Hit: only the y axis is tested
Hit_IgnoresX(world_pos, tile) == in_y(world_pos, tile.translation)

Hit(world_pos, tile) ==
    in_x(world_pos, tile.translation) /\ in_y(world_pos, tile.translation)

----------------------------------------------------------------------------
Init ==
    /\ \E types \in [1..NumTiles -> RandomTileTypes] : tiles = spawn_tiles(types)
    /\ selected = "Grass"
    /\ window = TRUE
    /\ camera = TRUE
    /\ cursor = NoCursor
    /\ just_pressed = FALSE
    /\ changed = NoChange
    /\ ran = Systems
    /\ panicked = FALSE
    /\ lastPress = NoPress
    /\ snap = NoSnap

----------------------------------------------------------------------------
(* What the claims call "the tile under the cursor": the cursor's world    *)
(* point lies strictly inside the TILE_SIZE x TILE_SIZE square centred on  *)
(* the tile's translation.                                                 *)

InBox(p, tile) ==
    /\ 2 * (p[1] - tile.translation[1]) < TILE_SIZE
    /\ 2 * (tile.translation[1] - p[1]) < TILE_SIZE
    /\ 2 * (p[2] - tile.translation[2]) < TILE_SIZE
    /\ 2 * (tile.translation[2] - p[2]) < TILE_SIZE

UnderCursorAt(c, k) == c # NoCursor /\ InBox(viewport_to_world(c), tiles[k])

UnderCursor(k) == UnderCursorAt(cursor, k)

----------------------------------------------------------------------------
(* The engine's part of a frame, before the Update schedule.  The cursor   *)
(* position is read by two systems and is fixed here for the frame; the    *)
(* mouse button and the UI focus are read by one system each and are drawn *)
(* where that system reads them.  One cursor presses or hovers at most one *)
(* button per frame.  A window or camera entity that is gone stays gone,   *)
(* and without a window there is no cursor.                                *)

ChangedInputs ==
    {NoChange} \cup [button : TileType, interaction : Interaction]

BeginFrame ==
    /\ ~panicked
    /\ ran = Systems
    /\ ran' = {}
    /\ window' \in (IF window THEN BOOLEAN ELSE {FALSE})
    /\ camera' \in (IF camera THEN BOOLEAN ELSE {FALSE})
    /\ cursor' \in (IF window' THEN CursorPositions \cup {NoCursor} ELSE {NoCursor})
    /\ just_pressed' = FALSE
    /\ changed' = NoChange
    /\ snap' = IF snap # NoSnap /\ UnderCursorAt(cursor', snap.tile) THEN snap ELSE NoSnap
    /\ UNCHANGED <<tiles, selected, panicked, lastPress>>

----------------------------------------------------------------------------
(* mouse_click_system                                                      *)

\* variant of ClickTile: paints the startup type instead of the selected one
ClickTile_PaintsGrass(world_pos, tile) ==
    IF Hit(world_pos, tile)
    THEN [tile EXCEPT !.tile_type = "Grass", !.color = color("Grass")]
    ELSE tile

\* variant of ClickTile: the sprite colour is not refreshed
ClickTile_KeepsColor(world_pos, tile) ==
    IF Hit(world_pos, tile)
    THEN [tile EXCEPT !.tile_type = selected]
    ELSE tile

\* the body of the loop over the tiles, for one tile
ClickTile(world_pos, tile) ==
    IF Hit(world_pos, tile)
    THEN [tile EXCEPT !.tile_type = selected, !.color = color(selected)]
    ELSE tile

\* history only: the tile the click was aimed at, as the click left it
SnapAfterClick(newTiles) ==
    IF \E k \in 1..NumTiles : UnderCursor(k)
    THEN LET k == CHOOSE j \in 1..NumTiles : UnderCursor(j)
         IN  [tile |-> k, tile_type |-> newTiles[k].tile_type, color |-> newTiles[k].color,
              again |-> (snap.tile = k)]
    ELSE snap

mouse_click_system ==
    /\ ~panicked
    /\ "mouse_click_system" \notin ran
    /\ IF ~window
       THEN \* windows.single() panics
            /\ panicked' = TRUE
            /\ UNCHANGED <<tiles, ran, snap, just_pressed>>
       ELSE /\ just_pressed' \in BOOLEAN
            /\ IF ~(just_pressed' /\ cursor # NoCursor)
               THEN /\ ran' = ran \cup {"mouse_click_system"}
                    /\ UNCHANGED <<tiles, panicked, snap>>
               ELSE IF ~camera
               THEN \* camera_q.single() panics
                    /\ panicked' = TRUE
                    /\ UNCHANGED <<tiles, ran, snap>>
               ELSE /\ tiles' = [k \in 1..NumTiles |->
                                   ClickTile(viewport_to_world(cursor), tiles[k])]
                    /\ ran' = ran \cup {"mouse_click_system"}
                    /\ snap' = SnapAfterClick(tiles')
                    /\ UNCHANGED panicked
    /\ UNCHANGED <<selected, window, camera, cursor, changed, lastPress>>

----------------------------------------------------------------------------
(* tile_hover_system                                                       *)

\* variant of HoverTile: hovering paints the tile as a click does
HoverTile_Paints(world_pos, tile) ==
    IF Hit(world_pos, tile)
    THEN [tile EXCEPT !.tile_type = selected, !.color = YELLOW]
    ELSE [tile EXCEPT !.color = color(tile.tile_type)]

HoverTile(world_pos, tile) ==
    IF Hit(world_pos, tile)
    THEN [tile EXCEPT !.color = YELLOW]
    ELSE [tile EXCEPT !.color = color(tile.tile_type)]

tile_hover_system ==
    /\ ~panicked
    /\ "tile_hover_system" \notin ran
    /\ IF ~window
       THEN \* windows.single() panics
            /\ panicked' = TRUE
            /\ UNCHANGED <<tiles, ran>>
       ELSE IF cursor # NoCursor
       THEN IF ~camera
            THEN \* camera_q.single() panics
                 /\ panicked' = TRUE
                 /\ UNCHANGED <<tiles, ran>>
            ELSE /\ tiles' = [k \in 1..NumTiles |->
                                HoverTile(viewport_to_world(cursor), tiles[k])]
                 /\ ran' = ran \cup {"tile_hover_system"}
                 /\ UNCHANGED panicked
       ELSE /\ ran' = ran \cup {"tile_hover_system"}
            /\ UNCHANGED <<tiles, panicked>>
    /\ UNCHANGED <<selected, window, camera, cursor, just_pressed, changed, lastPress, snap>>

----------------------------------------------------------------------------
(* tile_type_button_system                                                 *)

\* variant of ButtonSelect: a hovered button selects its type too
ButtonSelect_OnHover(c, sel) ==
    IF c.interaction \in {"Pressed", "Hovered"} THEN c.button ELSE sel

\* the match on *interaction, for one changed button
ButtonSelect(c, sel) ==
    IF c.interaction = "Pressed" THEN c.button ELSE sel

ChangedToPressed(c) == c # NoChange /\ c.interaction = "Pressed"

tile_type_button_system ==
    /\ ~panicked
    /\ "tile_type_button_system" \notin ran
    /\ ran' = ran \cup {"tile_type_button_system"}
    /\ changed' \in ChangedInputs
    /\ selected' = IF changed' = NoChange THEN selected ELSE ButtonSelect(changed', selected)
    /\ lastPress' = IF ChangedToPressed(changed') THEN changed'.button ELSE lastPress
    /\ snap' = IF ChangedToPressed(changed') THEN NoSnap ELSE snap
    /\ UNCHANGED <<tiles, window, camera, cursor, just_pressed, panicked>>

----------------------------------------------------------------------------
Next ==
    \/ BeginFrame
    \/ mouse_click_system
    \/ tile_hover_system
    \/ tile_type_button_system

Spec == Init /\ [][Next]_vars

----------------------------------------------------------------------------
(* Steps and states the properties speak about.                            *)

\* mouse_click_system ran to its end in this step
ClickStep == "mouse_click_system" \notin ran /\ "mouse_click_system" \in ran'

\* tile_type_button_system ran in this step
ButtonStep == "tile_type_button_system" \notin ran /\ "tile_type_button_system" \in ran'

\* every system of the frame has run
FrameDone == ran = Systems /\ ~panicked

NoTileUnderCursor == \A k \in 1..NumTiles : ~UnderCursor(k)

----------------------------------------------------------------------------
\* C1: when mouse_click_system sees a left-click edge while the cursor's world
\* point lies inside the box of tile k, then after it tile k has the selected
\* type and every other tile has the type it had before.
C1_ClickPaintsOnlyTheTileUnderCursor ==
    [][\A k \in 1..NumTiles :
          (ClickStep /\ just_pressed' /\ UnderCursor(k))
              => /\ tiles'[k].tile_type = selected
                 /\ \A j \in 1..NumTiles \ {k} : tiles'[j].tile_type = tiles[j].tile_type]_vars

\* a click on a tile has been handled, and the other tile has another type
C1_Witness ==
    /\ "mouse_click_system" \in ran
    /\ just_pressed
    /\ \E k \in 1..NumTiles :
          /\ UnderCursor(k)
          /\ tiles[k].tile_type = selected
          /\ \E j \in 1..NumTiles \ {k} : tiles[j].tile_type # selected

\* C2: a left-click at a world point inside no tile's box changes no tile's type.
C2_ClickOutsideChangesNoType ==
    [][(ClickStep /\ just_pressed' /\ cursor # NoCursor /\ NoTileUnderCursor)
          => \A k \in 1..NumTiles : tiles'[k].tile_type = tiles[k].tile_type]_vars

\* a click outside every box has been handled while some tile has not the selected type
C2_Witness ==
    /\ "mouse_click_system" \in ran
    /\ just_pressed
    /\ cursor # NoCursor
    /\ NoTileUnderCursor
    /\ \E k \in 1..NumTiles : tiles[k].tile_type # selected

\* C3: when tile_type_button_system handles a press of the button of type T, the
\* selected type becomes T; and every click on a tile that mouse_click_system
\* handles after that press, before another press is handled, paints the tile T.
C3_PressSelectsAndLaterClicksPaintIt ==
    [][/\ (ButtonStep /\ ChangedToPressed(changed')) => selected' = changed'.button
       /\ \A k \in 1..NumTiles :
             (ClickStep /\ just_pressed' /\ UnderCursor(k) /\ lastPress # NoPress)
                 => tiles'[k].tile_type = lastPress]_vars

\* a tile was painted, in a later frame, with the type of a handled press
C3_Witness ==
    /\ lastPress \notin {NoPress, "Grass"}
    /\ ran = {"mouse_click_system"}
    /\ just_pressed
    /\ \E k \in 1..NumTiles : UnderCursor(k) /\ tiles[k].tile_type = lastPress

\* C4 (first half): at the end of every frame in which the cursor is over tile k,
\* tile k shows the highlight colour and every other tile the colour of its
\* type, whatever happened in the frame and in whatever order the systems ran.
C4_HoveredTileHighlightedAtFrameEnd ==
    (FrameDone /\ window /\ camera)
        => \A k \in 1..NumTiles :
              UnderCursor(k)
                  => /\ tiles[k].color = YELLOW
                     /\ \A j \in 1..NumTiles \ {k} : tiles[j].color = color(tiles[j].tile_type)

\* C5: after every frame, every tile that is not under the cursor shows the
\* colour of its type.
C5_OnlyTheTileUnderCursorIsHighlighted ==
    (FrameDone /\ window /\ camera)
        => \A k \in 1..NumTiles :
              ~UnderCursor(k) => tiles[k].color = color(tiles[k].tile_type)

\* C6: in every state, every grid coordinate holds exactly one tile, every tile
\* is at a grid coordinate, and a tile at (x, y) is positioned at
\* (x*size - width*size/2, y*size - height*size/2).
C6_OneTilePerCoordinateAtItsPosition ==
    /\ \A x \in 0..(GRID_WIDTH - 1), y \in 0..(GRID_HEIGHT - 1) :
          Cardinality({k \in DOMAIN tiles : tiles[k].x = x /\ tiles[k].y = y}) = 1
    /\ \A k \in DOMAIN tiles :
          /\ tiles[k].x \in 0..(GRID_WIDTH - 1)
          /\ tiles[k].y \in 0..(GRID_HEIGHT - 1)
          /\ 2 * tiles[k].translation[1] = 2 * tiles[k].x * TILE_SIZE - GRID_WIDTH * TILE_SIZE
          /\ 2 * tiles[k].translation[2] = 2 * tiles[k].y * TILE_SIZE - GRID_HEIGHT * TILE_SIZE

\* frames have run: a press was handled and a tile was painted with another type
C6_Witness ==
    /\ FrameDone
    /\ lastPress = "Water"
    /\ \E k \in DOMAIN tiles : tiles[k].tile_type = "Water" /\ snap.tile = k

\* C7: a click on a tile that repeats an earlier click on it (the cursor stayed
\* on the tile, no press was handled in between) leaves the tile with the type
\* and the colour the earlier click left it with.
C7_RepeatedClickIsIdempotent ==
    [][\A k \in 1..NumTiles :
          (ClickStep /\ just_pressed' /\ UnderCursor(k) /\ snap.tile = k)
              => /\ tiles'[k].tile_type = snap.tile_type
                 /\ tiles'[k].color = snap.color]_vars

\* a second click on the same tile has been handled, after the hover handler
\* had highlighted the tile
C7_Witness ==
    /\ snap.again
    /\ ran = {"tile_hover_system", "mouse_click_system"}
    /\ tiles[snap.tile].color # YELLOW

C9_TypeChangesOnlyByClickOnTheTile ==
    [][/\ DOMAIN tiles' = DOMAIN tiles
       /\ \A k \in DOMAIN tiles :
             /\ tiles'[k].x = tiles[k].x
             /\ tiles'[k].y = tiles[k].y
             /\ tiles'[k].translation = tiles[k].translation
             /\ tiles'[k].tile_type # tiles[k].tile_type
                   => /\ ClickStep
                      /\ just_pressed'
                      /\ UnderCursor(k)
                      /\ tiles'[k].tile_type = selected]_vars

\* a frame ended in which a tile was clicked and then hovered, and a button
\* changed to hovered
C9_Witness ==
    /\ FrameDone
    /\ just_pressed
    /\ changed # NoChange
    /\ changed.interaction = "Hovered"
    /\ \E k \in 1..NumTiles :
          UnderCursor(k) /\ tiles[k].tile_type = selected /\ tiles[k].color = YELLOW

\* C10: the selected type is Grass at startup, and it changes only in a step of
\* tile_type_button_system in which a button changed to pressed, and then to
\* that button's type.
C10_SelectedChangesOnlyByPress ==
    /\ selected = "Grass"
    /\ [][selected' # selected
            => /\ ButtonStep
               /\ ChangedToPressed(changed')
               /\ selected' = changed'.button]_vars

\* a press changed the selected type, and later a button went back to idle
\* while a tile was clicked
C10_Witness ==
    /\ FrameDone
    /\ selected = "Crop"
    /\ changed # NoChange
    /\ changed.interaction = "None"
    /\ just_pressed
    /\ \E k \in 1..NumTiles : UnderCursor(k)

====
